---- MODULE Spec2Model ----
(***************************************************************************)
(* udp-redirect: a single-threaded bidirectional UDP relay.                *)
(* The model follows main() of udp-redirect.c: option parsing, settings    *)
(* validation, socket and endpoint setup, and the poll loop with its two   *)
(* socket handlers.  Values keep their C representation: settings flags    *)
(* are 0/1 integers, socket addresses are (s_addr, sin_port) pairs in      *)
(* network byte order as a little-endian host sees them.                   *)
(***************************************************************************)
EXTENDS Integers, Sequences, FiniteSets, TLC

(***************************************************************************)
(* Bounds of the model.                                                    *)
(***************************************************************************)
\* readable-socket events handled in one run (poll reports at most this many)
MaxEvents == 2
\* longest datagram payload, in bytes
MaxLen == 2
\* the clock reaches at most MaxTick statistics periods
MaxTick == 1

(***************************************************************************)
(* Program and platform constants.                                         *)
(***************************************************************************)
NETWORK_BUFFER_SIZE == 65535
STATS_DELAY_SECONDS == 60
MAX_ERRNO == 256
EOK == 0
EXIT_FAILURE == 1
\* enum DEBUG_LEVEL: the two levels the send report uses
DEBUG_LEVEL_ERROR == 0
DEBUG_LEVEL_DEBUG == 3
\* 0xffffffff; 32-bit addresses are kept as their bit pattern read as a signed int
INADDR_NONE == -1
\* errno values (Linux, asm-generic/errno.h)
EINTR == 4
EAGAIN == 11
EPIPE == 32
EADDRNOTAVAIL == 99
ENETDOWN == 100
ENETUNREACH == 101
ENOBUFS == 105
EHOSTUNREACH == 113

\* a NULL char pointer: an option that was not given
NULL == <<>>

(***************************************************************************)
(* Library conversions, computed as libc computes them.                    *)
(***************************************************************************)
\* htons on a little-endian host: the int is cut to 16 bits, its bytes swapped
htons(x) == LET v == x % 65536 IN (v % 256) * 256 + (v \div 256)

\* ntohs: the same byte swap
ntohs(x) == LET v == x % 65536 IN (v % 256) * 256 + (v \div 256)

\* inet_addr of a dotted quad given as its four numbers: the 32-bit address in
\* network byte order, INADDR_NONE when a part is out of range (so that
\* 255.255.255.255 is indistinguishable from a malformed address)
inet_addr(cp) ==
    IF Len(cp) = 4 /\ \A i \in 1..4 : cp[i] \in 0..255
    THEN cp[1] + 256 * cp[2] + 65536 * cp[3]
         + 16777216 * (IF cp[4] >= 128 THEN cp[4] - 256 ELSE cp[4])
    ELSE INADDR_NONE

\* atoi of a string given as its characters (digits 0..9; anything larger is a
\* non-digit): the value of the leading digits, 0 when there are none
RECURSIVE atoi_from(_, _, _)
atoi_from(str, i, acc) ==
    IF i > Len(str) \/ str[i] > 9 THEN acc
    ELSE atoi_from(str, i + 1, acc * 10 + str[i])

atoi(str) == atoi_from(str, 1, 0)

(***************************************************************************)
(* The environment: command lines, hosts, peers, payloads, errors, clock.  *)
(***************************************************************************)
AddrA == <<10, 0, 0, 1>>
AddrB == <<10, 0, 0, 2>>
AddrZero == <<0, 0, 0, 0>>
AddrBroadcast == <<255, 255, 255, 255>>
AddrBad == <<10, 0, 0, 256>>

HostGood == <<"relay", "example">>
HostBad == <<"nxdomain", "example">>

\* gethostbyname + inet_ntoa: the address string of a host, NULL when it does
\* not resolve
gethostbyname(host) == IF host = HostGood THEN AddrA ELSE NULL

\* the command line: one field per option value (NULL: option absent), the
\* sequence of --ignore-errors ("r") / --stop-errors ("s") options in order,
\* and whether an unknown option or a positional argument is present
BaseArgv ==
    [ laddr |-> NULL, lport |-> <<9, 0, 0, 0>>, lif |-> NULL,
      caddr |-> AddrA, chost |-> NULL, cport |-> <<7>>,
      saddr |-> NULL, sport |-> NULL, sif |-> NULL,
      x |-> FALSE, y |-> FALSE,
      lsaddr |-> NULL, lsport |-> NULL,
      errs |-> <<>>, q |-> FALSE,
      unknown |-> FALSE, positional |-> FALSE ]

\* expected-sender pairs: none, a regular one, the zero address, a port that
\* does not fit 16 bits
ExpectedSenders ==
    { <<NULL, NULL>>, <<AddrA, <<5>>>>, <<AddrZero, <<5>>>>,
      <<AddrA, <<6, 5, 5, 4, 1>>>> }

\* command lines that vary everything the endpoint tracker and the error
\* classifier read; an expected sender comes without --listen-address-strict,
\* which it implies
LoopArgvs ==
    { [BaseArgv EXCEPT !.x = f[1], !.y = f[2], !.errs = e,
                       !.lsaddr = f[3][1], !.lsport = f[3][2]] :
        f \in { g \in BOOLEAN \X BOOLEAN \X ExpectedSenders :
                   g[3] # <<NULL, NULL>> => ~g[1] },
        e \in {<<>>, <<"s">>} }

\* command lines with --stats
StatsArgvs ==
    { [BaseArgv EXCEPT !.q = TRUE] }

\* command lines that vary what startup validates, one option at a time
StartupArgvs ==
    { [BaseArgv EXCEPT !.lport = p] : p \in {NULL, <<0>>, <<10>>, <<6, 5, 5, 3, 6>>} }
    \cup { [BaseArgv EXCEPT !.cport = p] :
             p \in {NULL, <<0>>, <<6, 5, 5, 3, 6>>, <<6, 5, 5, 4, 3>>} }
    \cup { [BaseArgv EXCEPT !.caddr = a[1], !.chost = a[2]] :
             a \in {<<NULL, NULL>>, <<AddrBad, NULL>>, <<AddrBroadcast, NULL>>,
                    <<NULL, HostGood>>, <<AddrB, HostGood>>, <<NULL, HostBad>>} }
    \cup { [BaseArgv EXCEPT !.lsaddr = ls[1], !.lsport = ls[2]] :
             ls \in {<<AddrA, NULL>>, <<NULL, <<5>>>>, <<AddrBad, <<5>>>>,
                     <<AddrA, <<6, 5, 5, 3, 6>>>>} }
    \cup { [BaseArgv EXCEPT !.errs = e] :
             e \in {<<"r">>, <<"r", "s">>, <<"s", "r">>} }
    \cup { [BaseArgv EXCEPT !.laddr = a] : a \in {AddrA, AddrBad} }
    \cup { [BaseArgv EXCEPT !.saddr = a[1], !.sport = a[2], !.sif = a[3]] :
             a \in {<<AddrA, <<8>>, <<"eth0">>>>, <<AddrBad, NULL, NULL>>,
                    <<NULL, <<6, 5, 5, 3, 6>>, NULL>>} }
    \cup { [BaseArgv EXCEPT !.lif = <<"eth0">>],
           [BaseArgv EXCEPT !.unknown = TRUE],
           [BaseArgv EXCEPT !.positional = TRUE] }

Argvs == LoopArgvs \cup StartupArgvs

\* the steps of socket_setup that can fail, "none" when all succeed
SetupSteps ==
    {"none", "socket", "setsockopt_if", "setsockopt_reuse", "fcntl", "bind",
     "getsockname"}

\* peers that can send a datagram: (address, UDP port) as on the wire
Peers ==
    { <<AddrZero, 5>>, <<AddrA, 5>>, <<AddrA, 7>>, <<AddrB, 5>> }

\* payloads: the empty datagram and two of MaxLen bytes, the same bytes in
\* rising and in falling order, no byte occurring twice
Rising(n) == [i \in 1..n |-> 64 + i]
Falling(n) == [i \in 1..n |-> 65 + n - i]
Payloads == { <<>>, Rising(MaxLen), Falling(MaxLen) }

\* error codes the list of main() does not name: EINVAL, ECONNREFUSED
UnlistedErrnos == {22, 111}

\* error codes recvfrom / sendto and poll are made to fail with: one that is
\* always ignored, one that is ignored with eignore, one that never is
LoopErrnos == {EINTR, EHOSTUNREACH, 111}
PollErrnos == {EINTR, EAGAIN}

\* what the never-written sin_port of previous_endpoint can hold
GarbagePorts == {0, htons(5)}

\* the values time(NULL) can return: the clock is more than one statistics
\* period past the epoch; of every later period the last second within it and
\* the first second past it
Times == UNION { {k * (STATS_DELAY_SECONDS + 1) - 1, k * (STATS_DELAY_SECONDS + 1)} :
                   k \in 1..(MaxTick + 1) } \ {STATS_DELAY_SECONDS}

(***************************************************************************)
(* State.                                                                  *)
(***************************************************************************)
VARIABLES
    argv,               \* the command line
    pc,                 \* position in main()
    exit_status,        \* status the process exited with, -1 while running
    s,                  \* struct settings
    st,                 \* struct statistics
    now,                \* time_t now
    lsock, ssock,       \* the two sockets, as socket_setup configured them
    caddr,              \* connect address
    endpoint,           \* address the current packet was received from
    previous_endpoint,  \* address the previous packet was received from
    errno_ignore,       \* the errno ignore set
    network_buffer,     \* the network buffer (its first MaxLen + 1 bytes)
    ufds,               \* readability poll() reported for <<lsock, ssock>>
    rx,                 \* the recvfrom call of the current handler: its result
                        \* (recvfrom_retval, errno) and what it delivered
    tx,                 \* the sendto call of the current handler: its arguments
                        \* and its result (sendto_retval, errno)
    hist                \* history: events handled, peers seen on the listen
                        \* socket, the statistics as the last step found them,
                        \* recvfrom calls per socket in the current iteration

vars ==
    << argv, pc, exit_status, s, st, now, lsock, ssock, caddr, endpoint,
       previous_endpoint, errno_ignore, network_buffer, ufds, rx, tx, hist >>

(***************************************************************************)
(* Values of the structures.                                               *)
(***************************************************************************)
\* struct sockaddr_in, family left out (always AF_INET)
SockAddr(a, p) == [sin_addr |-> a, sin_port |-> p]

\* the source address recvfrom reports for a datagram sent by peer
PeerAddr(peer) == SockAddr(inet_addr(peer[1]), htons(peer[2]))

\* the settings initializer of main()
settings_initializer ==
    [ laddr |-> NULL, lport |-> 0, lif |-> NULL,
      caddr |-> NULL, chost |-> NULL, cport |-> 0,
      saddr |-> NULL, sport |-> 0, sif |-> NULL,
      lstrict |-> 0, cstrict |-> 0,
      lsaddr |-> NULL, lsport |-> 0,
      eignore |-> 1,
      stats |-> 0 ]

\* fault injection: the time of the last display starts at the time the loop
\* starts
statistics_initializer_LastAtStart ==
    [ time_display_last |-> STATS_DELAY_SECONDS + 1,
      time_display_first |-> 0,
      count_listen_packet_receive |-> 0, count_listen_byte_receive |-> 0,
      count_listen_packet_send |-> 0, count_listen_byte_send |-> 0,
      count_connect_packet_receive |-> 0, count_connect_byte_receive |-> 0,
      count_connect_packet_send |-> 0, count_connect_byte_send |-> 0,
      count_listen_packet_receive_total |-> 0, count_listen_byte_receive_total |-> 0,
      count_listen_packet_send_total |-> 0, count_listen_byte_send_total |-> 0,
      count_connect_packet_receive_total |-> 0, count_connect_byte_receive_total |-> 0,
      count_connect_packet_send_total |-> 0, count_connect_byte_send_total |-> 0 ]

\* the statistics initializer of main()
statistics_initializer ==
    [ time_display_last |-> 0,
      time_display_first |-> 0,
      count_listen_packet_receive |-> 0, count_listen_byte_receive |-> 0,
      count_listen_packet_send |-> 0, count_listen_byte_send |-> 0,
      count_connect_packet_receive |-> 0, count_connect_byte_receive |-> 0,
      count_connect_packet_send |-> 0, count_connect_byte_send |-> 0,
      count_listen_packet_receive_total |-> 0, count_listen_byte_receive_total |-> 0,
      count_listen_packet_send_total |-> 0, count_listen_byte_send_total |-> 0,
      count_connect_packet_receive_total |-> 0, count_connect_byte_receive_total |-> 0,
      count_connect_packet_send_total |-> 0, count_connect_byte_send_total |-> 0 ]

\* a socket that does not exist (yet)
NoSocket == [ok |-> FALSE, failed |-> "never", done |-> <<>>,
             addr |-> 0, port |-> 0, xif |-> NULL]

\* no datagram / no sendto call / no peer in the history variables
NoRx == [sock |-> "none", ret |-> 0, errno |-> EOK, payload |-> <<>>,
         pe |-> SockAddr(0, 0)]
NoTx == [sock |-> "none", dest |-> SockAddr(0, 0), data |-> <<>>,
         ret |-> 0, errno |-> EOK, lvl |-> DEBUG_LEVEL_ERROR]
NoPeer == SockAddr(-1, -1)

(***************************************************************************)
(* Init: the locals of main() as declared, before getopt_long runs.        *)
(***************************************************************************)
InitLocals ==
    /\ pc = "getopt"
    /\ exit_status = -1
    /\ s = settings_initializer
    /\ st = statistics_initializer
    /\ now = 0
    /\ lsock = NoSocket
    /\ ssock = NoSocket
    /\ caddr = SockAddr(0, 0)
    /\ endpoint = SockAddr(0, 0)
    /\ previous_endpoint = SockAddr(0, 0)
    /\ errno_ignore = {}
    /\ network_buffer = [i \in 1..(MaxLen + 1) |-> 0]
    /\ ufds = <<FALSE, FALSE>>
    /\ rx = NoRx
    /\ tx = NoTx
    /\ hist = [events |-> 0, emitted |-> FALSE, first_accepted |-> NoPeer,
               last_data |-> NoPeer, st0 |-> statistics_initializer,
               rcv |-> <<0, 0>>, counted |-> <<0, 0, 0, 0, 0, 0, 0, 0>>]

Init ==
    /\ argv \in Argvs
    /\ InitLocals

\* fault injection: the process exits with status 0
Exit_Success(status) ==
    /\ pc' = "exit"
    /\ exit_status' = EOK

\* exit(status): the process is gone, nothing else changes
Exit(status) ==
    /\ pc' = "exit"
    /\ exit_status' = status

(***************************************************************************)
(* getopt_long loop: every option stores its value in the settings.        *)
(***************************************************************************)
\* --ignore-errors / --stop-errors in command-line order: each overwrites eignore
RECURSIVE ErrorOptions(_, _)
ErrorOptions(eignore, opts) ==
    IF opts = <<>> THEN eignore
    ELSE ErrorOptions(IF Head(opts) = "r" THEN 1 ELSE 0, Tail(opts))

\* an integer option: atoi of its argument, the default 0 when absent
PortOption(arg) == IF arg = NULL THEN 0 ELSE atoi(arg)

ParsedSettings(av) ==
    [ laddr |-> av.laddr, lport |-> PortOption(av.lport), lif |-> av.lif,
      caddr |-> av.caddr, chost |-> av.chost, cport |-> PortOption(av.cport),
      saddr |-> av.saddr, sport |-> PortOption(av.sport), sif |-> av.sif,
      lstrict |-> IF av.x THEN 1 ELSE 0,
      cstrict |-> IF av.y THEN 1 ELSE 0,
      lsaddr |-> av.lsaddr, lsport |-> PortOption(av.lsport),
      eignore |-> ErrorOptions(settings_initializer.eignore, av.errs),
      stats |-> IF av.q THEN 1 ELSE 0 ]

Getopt ==
    /\ pc = "getopt"
    /\ IF argv.unknown
       THEN /\ Exit(EXIT_FAILURE)
            /\ UNCHANGED s
       ELSE /\ s' = ParsedSettings(argv)
            /\ pc' = "check"
            /\ UNCHANGED exit_status
    /\ UNCHANGED << argv, st, now, lsock, ssock, caddr, endpoint,
                    previous_endpoint, errno_ignore, network_buffer, ufds,
                    rx, tx, hist >>

(***************************************************************************)
(* Validation of the settings; an expected sender implies listen-strict.   *)
(***************************************************************************)
\* fault injection: half an expected sender is let through
SettingsRejected_NoPairTest(av, cfg) ==
    \/ av.positional
    \/ cfg.lport = 0
    \/ (cfg.caddr = NULL /\ cfg.chost = NULL)
    \/ cfg.cport = 0

\* the usage() exits of main(), in order
SettingsRejected(av, cfg) ==
    \/ av.positional
    \/ cfg.lport = 0
    \/ (cfg.caddr = NULL /\ cfg.chost = NULL)
    \/ cfg.cport = 0
    \/ (cfg.lsaddr # NULL /\ cfg.lsport = 0)
    \/ (cfg.lsaddr = NULL /\ cfg.lsport # 0)

\* strict mode is set when both lsaddr and lsport are given
ImplyStrict(cfg) ==
    IF cfg.lsaddr # NULL /\ cfg.lsport # 0
    THEN [cfg EXCEPT !.lstrict = 1]
    ELSE cfg

CheckSettings ==
    /\ pc = "check"
    /\ IF SettingsRejected(argv, s)
       THEN /\ Exit(EXIT_FAILURE)
            /\ UNCHANGED s
       ELSE /\ s' = ImplyStrict(s)
            /\ pc' = "setup"
            /\ UNCHANGED exit_status
    /\ UNCHANGED << argv, st, now, lsock, ssock, caddr, endpoint,
                    previous_endpoint, errno_ignore, network_buffer, ufds,
                    rx, tx, hist >>

(***************************************************************************)
(* socket_setup, resolve_host and the setup of main() before the loop.     *)
(***************************************************************************)
\* the steps socket_setup runs for its arguments, in order
SetupOrder(xaddr, xif) ==
    <<"socket">>
    \o (IF xaddr # NULL THEN <<"inet_addr">> ELSE <<>>)
    \o (IF xif # NULL THEN <<"setsockopt_if">> ELSE <<>>)
    \o <<"setsockopt_reuse", "fcntl", "bind", "getsockname">>

\* fault injection: the socket is handed back whatever step failed
socket_setup_ReturnsAnyway(xaddr, xport, xif, fail) ==
    LET order == SetupOrder(xaddr, xif)
        Fails(i) == \/ order[i] = fail
                    \/ (order[i] = "inet_addr" /\ inet_addr(xaddr) = INADDR_NONE)
        bad == {i \in 1..Len(order) : Fails(i)}
        first == IF bad = {} THEN Len(order) + 1
                 ELSE CHOOSE i \in bad : \A j \in bad : i <= j
    IN  [ ok |-> TRUE,
          failed |-> IF bad = {} THEN "none" ELSE order[first],
          done |-> SubSeq(order, 1, first - 1),
          addr |-> IF xaddr # NULL THEN inet_addr(xaddr) ELSE 0,
          port |-> IF xport # 0 THEN htons(xport) ELSE 0,
          xif |-> xif ]

\* socket_setup: fail is the system call the OS refuses ("none": all succeed).
\* The result records the steps done before the first failure; ok means the
\* socket was returned to the caller, otherwise the process exited.
socket_setup(xaddr, xport, xif, fail) ==
    LET order == SetupOrder(xaddr, xif)
        Fails(i) == \/ order[i] = fail
                    \/ (order[i] = "inet_addr" /\ inet_addr(xaddr) = INADDR_NONE)
        bad == {i \in 1..Len(order) : Fails(i)}
        first == IF bad = {} THEN Len(order) + 1
                 ELSE CHOOSE i \in bad : \A j \in bad : i <= j
    IN  [ ok |-> bad = {},
          failed |-> IF bad = {} THEN "none" ELSE order[first],
          done |-> SubSeq(order, 1, first - 1),
          addr |-> IF xaddr # NULL THEN inet_addr(xaddr) ELSE 0,
          port |-> IF xport # 0 THEN htons(xport) ELSE 0,
          xif |-> xif ]

\* resolve_host: the address string of the host, NULL when the process exits
resolve_host(host) == gethostbyname(host)

\* the connect address main() sets up from the settings
ConnectAddress(cfg) == SockAddr(inet_addr(cfg.caddr), htons(cfg.cport))

\* the previous endpoint main() starts with: none (s_addr 0, sin_port never
\* written) or the expected sender
SeedEndpoint(cfg, garbage) ==
    IF cfg.lsaddr = NULL /\ cfg.lsport = 0
    THEN SockAddr(0, garbage)
    ELSE SockAddr(inet_addr(cfg.lsaddr), htons(cfg.lsport))

\* ERRNO_IGNORE_SET / ERRNO_IGNORE_CHECK on the ignore array, kept as the set
\* of indices that hold 1
ERRNO_IGNORE_SET(X, Y) == IF Y >= 0 /\ Y < MAX_ERRNO THEN X \cup {Y} ELSE X

\* fault injection: every code in range counts as ignorable
ERRNO_IGNORE_CHECK_InRange(X, Y) == Y >= 0 /\ Y < MAX_ERRNO

ERRNO_IGNORE_CHECK(X, Y) == Y >= 0 /\ Y < MAX_ERRNO /\ Y \in X

RECURSIVE IgnoreAll(_, _)
IgnoreAll(X, codes) ==
    IF codes = <<>> THEN X
    ELSE IgnoreAll(ERRNO_IGNORE_SET(X, Head(codes)), Tail(codes))

\* the list of harmless recvfrom / sendto errors of main()
HarmlessErrnos ==
    <<EAGAIN, EHOSTUNREACH, ENETDOWN, ENETUNREACH, ENOBUFS, EPIPE, EADDRNOTAVAIL>>

\* fault injection: the harmless list is added whatever eignore says
ErrnoIgnoreBuild_Always(eignore) ==
    IgnoreAll(ERRNO_IGNORE_SET({}, EINTR), HarmlessErrnos)

\* the ignore set main() builds: EINTR always, the harmless list with eignore
ErrnoIgnoreBuild(eignore) ==
    LET base == ERRNO_IGNORE_SET({}, EINTR)
    IN  IF eignore = 1 THEN IgnoreAll(base, HarmlessErrnos) ELSE base

\* the time the loop starts at: the earliest of Times
StartTimes(cfg) == {STATS_DELAY_SECONDS + 1}

Setup ==
    /\ pc = "setup"
    /\ \E lfail \in SetupSteps, sfail \in SetupSteps, g1 \in GarbagePorts,
          t0 \in StartTimes(s) :
         LET host == IF s.chost # NULL THEN resolve_host(s.chost) ELSE s.caddr
             cfg == [s EXCEPT !.caddr = host]
             ls == socket_setup(cfg.laddr, cfg.lport, cfg.lif, lfail)
             ss == socket_setup(cfg.saddr, cfg.sport, cfg.sif, sfail)
             ca == ConnectAddress(cfg)
             pe == SeedEndpoint(cfg, g1)
         IN  /\ (lfail = "none" \/ sfail = "none")
             /\ IF host = NULL
                THEN /\ Exit(EXIT_FAILURE)
                     /\ UNCHANGED << s, st, lsock, ssock, caddr, endpoint,
                                     previous_endpoint, errno_ignore >>
                ELSE IF ~ls.ok
                THEN /\ Exit(EXIT_FAILURE)
                     /\ s' = cfg
                     /\ lsock' = ls
                     /\ UNCHANGED << st, ssock, caddr, endpoint,
                                     previous_endpoint, errno_ignore >>
                ELSE IF ~ss.ok
                THEN /\ Exit(EXIT_FAILURE)
                     /\ s' = cfg
                     /\ lsock' = ls
                     /\ ssock' = ss
                     /\ UNCHANGED << st, caddr, endpoint, previous_endpoint,
                                     errno_ignore >>
                ELSE IF ca.sin_addr = INADDR_NONE
                THEN /\ Exit(EXIT_FAILURE)
                     /\ s' = cfg
                     /\ lsock' = ls
                     /\ ssock' = ss
                     /\ caddr' = ca
                     /\ UNCHANGED << st, endpoint, previous_endpoint,
                                     errno_ignore >>
                ELSE IF pe.sin_addr = INADDR_NONE
                THEN /\ Exit(EXIT_FAILURE)
                     /\ s' = cfg
                     /\ lsock' = ls
                     /\ ssock' = ss
                     /\ caddr' = ca
                     /\ endpoint' = SockAddr(0, endpoint.sin_port)
                     /\ previous_endpoint' = pe
                     /\ UNCHANGED << st, errno_ignore >>
                ELSE /\ pc' = "top"
                     /\ s' = cfg
                     /\ lsock' = ls
                     /\ ssock' = ss
                     /\ caddr' = ca
                     /\ endpoint' = SockAddr(0, endpoint.sin_port)
                     /\ previous_endpoint' = pe
                     /\ errno_ignore' = ErrnoIgnoreBuild(cfg.eignore)
                     /\ st' = [st EXCEPT !.time_display_first = t0]
                     /\ UNCHANGED exit_status
    /\ hist' = [hist EXCEPT !.st0 = st]
    /\ UNCHANGED << argv, now, network_buffer, ufds, rx, tx >>

(***************************************************************************)
(* Statistics.                                                             *)
(***************************************************************************)
\* fault injection: the byte counters are not zeroed
stats_display_KeepBytes(stt, t) ==
    [ stt EXCEPT
        !.count_listen_packet_receive_total = @ + stt.count_listen_packet_receive,
        !.count_listen_byte_receive_total = @ + stt.count_listen_byte_receive,
        !.count_listen_packet_send_total = @ + stt.count_listen_packet_send,
        !.count_listen_byte_send_total = @ + stt.count_listen_byte_send,
        !.count_connect_packet_receive_total = @ + stt.count_connect_packet_receive,
        !.count_connect_byte_receive_total = @ + stt.count_connect_byte_receive,
        !.count_connect_packet_send_total = @ + stt.count_connect_packet_send,
        !.count_connect_byte_send_total = @ + stt.count_connect_byte_send,
        !.count_listen_packet_receive = 0, !.count_listen_packet_send = 0,
        !.count_connect_packet_receive = 0, !.count_connect_packet_send = 0 ]

\* fault injection: the interval counters are taken off the totals
stats_display_Subtract(stt, t) ==
    [ stt EXCEPT
        !.count_listen_packet_receive_total = @ - stt.count_listen_packet_receive,
        !.count_listen_byte_receive_total = @ - stt.count_listen_byte_receive,
        !.count_listen_packet_send_total = @ - stt.count_listen_packet_send,
        !.count_listen_byte_send_total = @ - stt.count_listen_byte_send,
        !.count_connect_packet_receive_total = @ - stt.count_connect_packet_receive,
        !.count_connect_byte_receive_total = @ - stt.count_connect_byte_receive,
        !.count_connect_packet_send_total = @ - stt.count_connect_packet_send,
        !.count_connect_byte_send_total = @ - stt.count_connect_byte_send,
        !.count_listen_packet_receive = 0, !.count_listen_byte_receive = 0,
        !.count_listen_packet_send = 0, !.count_listen_byte_send = 0,
        !.count_connect_packet_receive = 0, !.count_connect_byte_receive = 0,
        !.count_connect_packet_send = 0, !.count_connect_byte_send = 0 ]

\* fault injection: the packet counters are added to the totals twice
stats_display_Twice(stt, t) ==
    [ stt EXCEPT
        !.count_listen_packet_receive_total = @ + 2 * stt.count_listen_packet_receive,
        !.count_listen_byte_receive_total = @ + stt.count_listen_byte_receive,
        !.count_listen_packet_send_total = @ + 2 * stt.count_listen_packet_send,
        !.count_listen_byte_send_total = @ + stt.count_listen_byte_send,
        !.count_connect_packet_receive_total = @ + 2 * stt.count_connect_packet_receive,
        !.count_connect_byte_receive_total = @ + stt.count_connect_byte_receive,
        !.count_connect_packet_send_total = @ + 2 * stt.count_connect_packet_send,
        !.count_connect_byte_send_total = @ + stt.count_connect_byte_send,
        !.count_listen_packet_receive = 0, !.count_listen_byte_receive = 0,
        !.count_listen_packet_send = 0, !.count_listen_byte_send = 0,
        !.count_connect_packet_receive = 0, !.count_connect_byte_receive = 0,
        !.count_connect_packet_send = 0, !.count_connect_byte_send = 0 ]

\* fault injection: the interval counters are zeroed without being added
stats_display_NoRollup(stt, t) ==
    [ stt EXCEPT
        !.count_listen_packet_receive = 0, !.count_listen_byte_receive = 0,
        !.count_listen_packet_send = 0, !.count_listen_byte_send = 0,
        !.count_connect_packet_receive = 0, !.count_connect_byte_receive = 0,
        !.count_connect_packet_send = 0, !.count_connect_byte_send = 0 ]

\* stats_display: the interval counters are added to the totals, printed,
\* and zeroed
stats_display(stt, t) ==
    [ stt EXCEPT
        !.count_listen_packet_receive_total = @ + stt.count_listen_packet_receive,
        !.count_listen_byte_receive_total = @ + stt.count_listen_byte_receive,
        !.count_listen_packet_send_total = @ + stt.count_listen_packet_send,
        !.count_listen_byte_send_total = @ + stt.count_listen_byte_send,
        !.count_connect_packet_receive_total = @ + stt.count_connect_packet_receive,
        !.count_connect_byte_receive_total = @ + stt.count_connect_byte_receive,
        !.count_connect_packet_send_total = @ + stt.count_connect_packet_send,
        !.count_connect_byte_send_total = @ + stt.count_connect_byte_send,
        !.count_listen_packet_receive = 0, !.count_listen_byte_receive = 0,
        !.count_listen_packet_send = 0, !.count_listen_byte_send = 0,
        !.count_connect_packet_receive = 0, !.count_connect_byte_receive = 0,
        !.count_connect_packet_send = 0, !.count_connect_byte_send = 0 ]

\* fault injection: the statistics are displayed from the 60th second on
StatsDue_AtInterval(cfg, stt, t) ==
    cfg.stats # 0 /\ (t - stt.time_display_last) >= STATS_DELAY_SECONDS

\* fault injection: statistics_display leaves the connect side out of the totals
statistics_display_ListenOnly(stt, t) ==
    [ stt EXCEPT
        !.count_listen_packet_receive_total = @ + stt.count_listen_packet_receive,
        !.count_listen_byte_receive_total = @ + stt.count_listen_byte_receive,
        !.count_listen_packet_send_total = @ + stt.count_listen_packet_send,
        !.count_listen_byte_send_total = @ + stt.count_listen_byte_send,
        !.count_listen_packet_receive = 0, !.count_listen_byte_receive = 0,
        !.count_listen_packet_send = 0, !.count_listen_byte_send = 0,
        !.count_connect_packet_receive = 0, !.count_connect_byte_receive = 0,
        !.count_connect_packet_send = 0, !.count_connect_byte_send = 0 ]

\* statistics_display of statistics.c, statement by statement: the listen
\* counters are added to their totals, then the connect counters, the report
\* is printed, and the chained assignment zeroes the eight interval counters
statistics_display(stt, t) ==
    LET listen == [ stt EXCEPT
            !.count_listen_packet_receive_total = @ + stt.count_listen_packet_receive,
            !.count_listen_byte_receive_total = @ + stt.count_listen_byte_receive,
            !.count_listen_packet_send_total = @ + stt.count_listen_packet_send,
            !.count_listen_byte_send_total = @ + stt.count_listen_byte_send ]
        connect == [ listen EXCEPT
            !.count_connect_packet_receive_total = @ + listen.count_connect_packet_receive,
            !.count_connect_byte_receive_total = @ + listen.count_connect_byte_receive,
            !.count_connect_packet_send_total = @ + listen.count_connect_packet_send,
            !.count_connect_byte_send_total = @ + listen.count_connect_byte_send ]
    IN  [ connect EXCEPT
            !.count_connect_byte_send = 0, !.count_connect_packet_send = 0,
            !.count_connect_byte_receive = 0, !.count_connect_packet_receive = 0,
            !.count_listen_byte_send = 0, !.count_listen_packet_send = 0,
            !.count_listen_byte_receive = 0, !.count_listen_packet_receive = 0 ]

\* the statistics check at the top of the loop
StatsDue(cfg, stt, t) ==
    cfg.stats # 0 /\ (t - stt.time_display_last) > STATS_DELAY_SECONDS

StatsCheck(cfg, stt, t) ==
    IF StatsDue(cfg, stt, t)
    THEN [stats_display(stt, t) EXCEPT !.time_display_last = t]
    ELSE stt

\* fault injection: a send counts a packet but no bytes
CountConnectSend_NoBytes(stt, n) ==
    [ stt EXCEPT !.count_connect_packet_send = @ + 1 ]

\* fault injection: datagrams received on the send socket are not counted
CountConnectReceive_None(stt, n) == stt

\* the counter updates of the two handlers
CountListenReceive(stt, n) ==
    [ stt EXCEPT !.count_listen_packet_receive = @ + 1,
                 !.count_listen_byte_receive = @ + n ]

CountConnectSend(stt, n) ==
    [ stt EXCEPT !.count_connect_packet_send = @ + 1,
                 !.count_connect_byte_send = @ + n ]

CountConnectReceive(stt, n) ==
    [ stt EXCEPT !.count_connect_packet_receive = @ + 1,
                 !.count_connect_byte_receive = @ + n ]

CountListenSend(stt, n) ==
    [ stt EXCEPT !.count_listen_packet_send = @ + 1,
                 !.count_listen_byte_send = @ + n ]

(***************************************************************************)
(* Top of the loop: clock, statistics check, poll.                         *)
(***************************************************************************)
\* what poll can return: -1 with an errno, 0 on timeout, or the number of
\* sockets with events, each readable or not (events without POLLIN/POLLPRI,
\* such as POLLERR, make a socket count without being readable)
PollResults ==
    { [ret |-> -1, errno |-> e, revents |-> <<FALSE, FALSE>>] : e \in PollErrnos }
    \cup { [ret |-> 0, errno |-> EOK, revents |-> <<FALSE, FALSE>>] }
    \cup { [ret |-> 1, errno |-> EOK, revents |-> r] :
             r \in {<<FALSE, FALSE>>, <<TRUE, FALSE>>, <<FALSE, TRUE>>} }
    \cup { [ret |-> 2, errno |-> EOK, revents |-> <<TRUE, TRUE>>] }

Readable(r) == (IF r[1] THEN 1 ELSE 0) + (IF r[2] THEN 1 ELSE 0)

\* what time(NULL) can return at the top of the loop: the clock does not run
\* backwards, and as poll waits one second at most it is read often enough to
\* pass no value of Times by; with stats off now is never read and the clock
\* is kept still
ClockValues(cfg, stt, cur) ==
    LET low == IF cur >= stt.time_display_first THEN cur ELSE stt.time_display_first
    IN  IF cfg.stats # 0
        THEN {t \in Times : t >= low /\ Cardinality({u \in Times : low <= u /\ u < t}) <= 1}
        ELSE {low}

\* fault injection: poll errors are looked up in the ignore set
PollSurvives_IgnoreSet(e) == ERRNO_IGNORE_CHECK(errno_ignore, e)

\* a failed poll: the loop is continued on EINTR, any other errno is fatal
PollSurvives(e) == e = EINTR

\* fault injection: the socket blocks are run after a timeout too
AfterPoll_NoTimeoutTest(ret) == "listen"

\* where main() goes on after poll returned ret >= 0: a timeout continues the
\* loop, anything else reaches the block of the listen socket
AfterPoll(ret) == IF ret = 0 THEN "top" ELSE "listen"

LoopTop ==
    /\ pc = "top"
    /\ \E t \in ClockValues(s, st, now), p \in PollResults :
         /\ hist.events + Readable(p.revents) <= MaxEvents
         /\ now' = t
         /\ st' = StatsCheck(s, st, t)
         /\ hist' = [hist EXCEPT !.st0 = st, !.rcv = <<0, 0>>,
                                 !.events = @ + Readable(p.revents),
                                 !.emitted = StatsDue(s, st, t)]
         /\ tx' = NoTx
         /\ IF p.ret = -1
            THEN /\ rx' = [NoRx EXCEPT !.sock = "poll", !.ret = -1, !.errno = p.errno,
                                       !.pe = previous_endpoint]
                 /\ ufds' = <<FALSE, FALSE>>
                 /\ IF PollSurvives(p.errno)
                    THEN pc' = "top" /\ UNCHANGED exit_status
                    ELSE Exit(EXIT_FAILURE)
            ELSE /\ rx' = [NoRx EXCEPT !.sock = "poll", !.ret = p.ret,
                                       !.pe = previous_endpoint]
                 /\ ufds' = p.revents
                 /\ pc' = AfterPoll(p.ret)
                 /\ UNCHANGED exit_status
    /\ UNCHANGED << argv, s, lsock, ssock, caddr, endpoint, previous_endpoint,
                    errno_ignore, network_buffer >>

(***************************************************************************)
(* recvfrom / sendto.                                                      *)
(***************************************************************************)
\* the number of bytes recvfrom stores for a datagram
RecvLen(payload) ==
    IF Len(payload) <= NETWORK_BUFFER_SIZE THEN Len(payload) ELSE NETWORK_BUFFER_SIZE

\* fault injection: recvfrom stores nothing in a buffer that holds a datagram
RecvInto_KeepOld(buf, payload) ==
    IF buf[1] # 0 THEN buf
    ELSE [i \in 1..Len(buf) |-> IF i <= RecvLen(payload) THEN payload[i] ELSE buf[i]]

\* the buffer after recvfrom stored a datagram at its start
RecvInto(buf, payload) ==
    [i \in 1..Len(buf) |-> IF i <= RecvLen(payload) THEN payload[i] ELSE buf[i]]

\* fault injection: sendto is handed the whole buffer
SendtoData_WholeBuffer(buf, n) == buf

\* the bytes sendto is handed: the first n bytes of the buffer
SendtoData(buf, n) == SubSeq(buf, 1, n)

\* fault injection: anything but a full send is reported as an error
SendLogLevel_PartialIsError(sent, received, eignore) ==
    IF sent = received THEN DEBUG_LEVEL_DEBUG ELSE DEBUG_LEVEL_ERROR

\* the level of the report that follows a sendto the process survived
SendLogLevel(sent, received, eignore) ==
    IF sent = received \/ eignore = 1 THEN DEBUG_LEVEL_DEBUG ELSE DEBUG_LEVEL_ERROR

\* the DEBUG macro prints a message when debug_level is at least its level
Printed(debug_level, lvl) == debug_level >= lvl

\* fault injection: an empty datagram is handled like any other
HasData_ZeroToo(n) == n >= 0

\* the test both handlers make on recvfrom_retval before anything else
HasData(n) == n > 0

\* what recvfrom can return on a readable socket: an error, or a datagram
\* (possibly empty) of some peer
RecvResults ==
    { [ret |-> -1, errno |-> e, peer |-> <<AddrZero, 0>>, payload |-> <<>>] :
        e \in LoopErrnos }
    \cup { [ret |-> RecvLen(d), errno |-> EOK, peer |-> p, payload |-> d] :
             p \in Peers, d \in Payloads }

\* what sendto can return for n bytes: all sent, one byte short, or an error
SendtoResults(n) ==
    { [ret |-> n, errno |-> EOK], [ret |-> n - 1, errno |-> EOK] }
    \cup { [ret |-> -1, errno |-> e] : e \in LoopErrnos }

(***************************************************************************)
(* The endpoint tracker.                                                   *)
(***************************************************************************)
\* fault injection: the listen-side comparison leaves the port out
ListenAccept_AddrOnly(pe, ep, lstrict) ==
    \/ (pe.sin_addr = 0 \/ lstrict = 0)
    \/ pe.sin_addr = ep.sin_addr

\* fault injection: the endpoint is learned once, strict mode or not
ListenLearn_Once(pe, ep, lstrict) ==
    IF pe.sin_addr = 0 THEN SockAddr(ep.sin_addr, ep.sin_port) ELSE pe

\* fault injection: the endpoint is never learned
ListenLearn_Never(pe, ep, lstrict) == pe

\* fault injection: the send-side comparison leaves the port out
SendAccept_AddrOnly(pe, ep, ca, cstrict) ==
    /\ pe.sin_addr # 0
    /\ (cstrict = 0 \/ ca.sin_addr = ep.sin_addr)

\* fault injection: the send side does not ask for a learned endpoint
SendAccept_Unlearned(pe, ep, ca, cstrict) ==
    cstrict = 0 \/ (ca.sin_addr = ep.sin_addr /\ ca.sin_port = ep.sin_port)

\* fault injection: replies go back to the connect address
SendForwardDest_Connect(ca, pe) == ca

\* fault injection: the endpoint is kept only when sendto succeeded
LearnedAfterSend_OnSuccess(learned, pe, sendto_retval) ==
    IF sendto_retval = -1 THEN pe ELSE learned

\* fault injection: the send handler takes the source of its datagram as the
\* previous endpoint
SendLearn_FromSource(pe, ep) == SockAddr(ep.sin_addr, ep.sin_port)

\* listen socket: the packet is accepted if there is no previous endpoint, or
\* strict mode is off, or the previous endpoint matches the current one
ListenAccept(pe, ep, lstrict) ==
    \/ (pe.sin_addr = 0 \/ lstrict = 0)
    \/ (pe.sin_addr = ep.sin_addr /\ pe.sin_port = ep.sin_port)

\* listen socket: the previous endpoint after an accepted packet
ListenLearn(pe, ep, lstrict) ==
    IF pe.sin_addr = 0 \/ lstrict = 0 THEN SockAddr(ep.sin_addr, ep.sin_port) ELSE pe

\* send socket: the packet is accepted if the listen endpoint is known and,
\* in strict mode, the packet comes from the connect address
SendAccept(pe, ep, ca, cstrict) ==
    /\ pe.sin_addr # 0
    /\ (cstrict = 0 \/ (ca.sin_addr = ep.sin_addr /\ ca.sin_port = ep.sin_port))

\* listen socket: the previous endpoint once sendto has returned; it was
\* assigned before the call and the result of the call plays no part
LearnedAfterSend(learned, pe, sendto_retval) == learned

\* send socket: the previous endpoint after a packet; the handler reads it
\* and has no assignment to it
SendLearn(pe, ep) == pe

\* the address the listen handler passes to sendto
ListenForwardDest(ca, pe) == ca

\* the address the send handler passes to sendto
SendForwardDest(ca, pe) == pe

\* the history of the traffic: packets and bytes received with data on each
\* socket and sent without error on the other, in the order listen receive,
\* listen send, connect receive, connect send
Tally(c, rxn, txn) ==
    LET got == rxn.ret > 0
        sent == got /\ txn.sock # "none" /\ txn.ret # -1
        lr == got /\ rxn.sock = "listen"
        cr == got /\ rxn.sock = "send"
        ls == sent /\ txn.sock = "listen"
        cs == sent /\ txn.sock = "send"
    IN  << c[1] + (IF lr THEN 1 ELSE 0), c[2] + (IF lr THEN rxn.ret ELSE 0),
           c[3] + (IF ls THEN 1 ELSE 0), c[4] + (IF ls THEN txn.ret ELSE 0),
           c[5] + (IF cr THEN 1 ELSE 0), c[6] + (IF cr THEN rxn.ret ELSE 0),
           c[7] + (IF cs THEN 1 ELSE 0), c[8] + (IF cs THEN txn.ret ELSE 0) >>

\* the history of the listen socket: the source of the first datagram that
\* was accepted, and of the most recent datagram of at least one byte
SeenOnListen(h, ep, n, accepted) ==
    [ h EXCEPT !.first_accepted = IF accepted /\ @ = NoPeer THEN ep ELSE @,
               !.last_data = IF n > 0 THEN ep ELSE @ ]

(***************************************************************************)
(* The two handlers.  They have the same shape and differ in the          *)
(* acceptance rule, the destination and the counters.                      *)
(***************************************************************************)
\* fault injection: only EINTR is survived / every error is survived
Survives_EintrOnly(e) == e = EINTR

Survives_Always(e) == TRUE

\* a failed call: fatal unless the errno is in the ignore set
Survives(e) == ERRNO_IGNORE_CHECK(errno_ignore, e)

\* fault injection: the block of the listen socket is run again (a drain loop)
AfterListen_Drain == "listen"

\* where main() goes on after the block of the listen socket and after the
\* block of the send socket: each block is an if, not a loop
AfterListen == "send"

AfterSend == "top"

ListenSocket ==
    /\ pc = "listen"
    /\ IF ~ufds[1]
       THEN /\ pc' = AfterListen
            /\ hist' = [hist EXCEPT !.st0 = st]
            /\ UNCHANGED << exit_status, st, endpoint, previous_endpoint,
                            network_buffer, rx, tx >>
       ELSE \E r \in RecvResults :
            IF r.ret = -1
            THEN /\ rx' = [sock |-> "listen", ret |-> -1, errno |-> r.errno,
                           payload |-> <<>>, pe |-> previous_endpoint]
                 /\ IF Survives(r.errno)
                    THEN pc' = AfterListen /\ UNCHANGED exit_status
                    ELSE Exit(EXIT_FAILURE)
                 /\ hist' = [hist EXCEPT !.st0 = st, !.rcv[1] = @ + 1]
                 /\ UNCHANGED << st, endpoint, previous_endpoint, network_buffer,
                                 tx >>
            ELSE LET ep == PeerAddr(r.peer)
                     buf == RecvInto(network_buffer, r.payload)
                     n == r.ret
                     accepted == HasData(n) /\ ListenAccept(previous_endpoint, ep, s.lstrict)
                     counted == IF HasData(n) THEN CountListenReceive(st, n) ELSE st
                     learned == ListenLearn(previous_endpoint, ep, s.lstrict)
                 IN  /\ endpoint' = ep
                     /\ network_buffer' = buf
                     /\ rx' = [sock |-> "listen", ret |-> n, errno |-> EOK,
                               payload |-> r.payload, pe |-> previous_endpoint]
                     /\ IF accepted
                        THEN \E sr \in SendtoResults(n) :
                                  /\ previous_endpoint'
                                        = LearnedAfterSend(learned, previous_endpoint, sr.ret)
                                  /\ tx' = [sock |-> "send",
                                            dest |-> ListenForwardDest(caddr, learned),
                                            data |-> SendtoData(buf, n),
                                            ret |-> sr.ret, errno |-> sr.errno,
                                            lvl |-> SendLogLevel(sr.ret, n, s.eignore)]
                                  /\ IF sr.ret = -1
                                     THEN /\ st' = counted
                                          /\ IF Survives(sr.errno)
                                             THEN pc' = AfterListen /\ UNCHANGED exit_status
                                             ELSE Exit(EXIT_FAILURE)
                                     ELSE /\ st' = CountConnectSend(counted, sr.ret)
                                          /\ pc' = AfterListen
                                          /\ UNCHANGED exit_status
                        ELSE /\ st' = counted
                             /\ pc' = AfterListen
                             /\ UNCHANGED << previous_endpoint, tx, exit_status >>
                     /\ hist' = [SeenOnListen(hist, ep, n, accepted) EXCEPT !.st0 = st,
                                      !.rcv[1] = @ + 1,
                                      !.counted = Tally(@, rx', tx')]
    /\ UNCHANGED << argv, s, now, lsock, ssock, caddr, errno_ignore, ufds >>

SendSocket ==
    /\ pc = "send"
    /\ IF ~ufds[2]
       THEN /\ pc' = AfterSend
            /\ UNCHANGED << exit_status, st, endpoint, previous_endpoint,
                            network_buffer, rx, tx >>
       ELSE \E r \in RecvResults :
            IF r.ret = -1
            THEN /\ rx' = [sock |-> "send", ret |-> -1, errno |-> r.errno,
                           payload |-> <<>>, pe |-> previous_endpoint]
                 /\ tx' = NoTx
                 /\ IF Survives(r.errno)
                    THEN pc' = AfterSend /\ UNCHANGED exit_status
                    ELSE Exit(EXIT_FAILURE)
                 /\ UNCHANGED << st, endpoint, previous_endpoint, network_buffer >>
            ELSE LET ep == PeerAddr(r.peer)
                     buf == RecvInto(network_buffer, r.payload)
                     n == r.ret
                     accepted == HasData(n) /\ SendAccept(previous_endpoint, ep, caddr, s.cstrict)
                     counted == IF HasData(n) THEN CountConnectReceive(st, n) ELSE st
                 IN  /\ endpoint' = ep
                     /\ previous_endpoint' = SendLearn(previous_endpoint, ep)
                     /\ network_buffer' = buf
                     /\ rx' = [sock |-> "send", ret |-> n, errno |-> EOK,
                               payload |-> r.payload, pe |-> previous_endpoint]
                     /\ IF accepted
                        THEN \E sr \in SendtoResults(n) :
                                  /\ tx' = [sock |-> "listen",
                                            dest |-> SendForwardDest(caddr, previous_endpoint),
                                            data |-> SendtoData(buf, n),
                                            ret |-> sr.ret, errno |-> sr.errno,
                                            lvl |-> SendLogLevel(sr.ret, n, s.eignore)]
                                  /\ IF sr.ret = -1
                                     THEN /\ st' = counted
                                          /\ IF Survives(sr.errno)
                                             THEN pc' = AfterSend /\ UNCHANGED exit_status
                                             ELSE Exit(EXIT_FAILURE)
                                     ELSE /\ st' = CountListenSend(counted, sr.ret)
                                          /\ pc' = AfterSend
                                          /\ UNCHANGED exit_status
                        ELSE /\ st' = counted
                             /\ tx' = NoTx
                             /\ pc' = AfterSend
                             /\ UNCHANGED exit_status
    /\ hist' = [hist EXCEPT !.st0 = st, !.rcv[2] = @ + (IF ufds[2] THEN 1 ELSE 0),
                             !.counted = IF ufds[2] THEN Tally(@, rx', tx') ELSE @]
    /\ UNCHANGED << argv, s, now, lsock, ssock, caddr, errno_ignore, ufds >>

(***************************************************************************)
(* The program.                                                            *)
(***************************************************************************)
Next ==
    \/ Getopt
    \/ CheckSettings
    \/ Setup
    \/ LoopTop
    \/ ListenSocket
    \/ SendSocket

Spec == Init /\ [][Next]_vars

\* the same program started with --stats, and without for comparison
InitStats ==
    /\ argv \in StatsArgvs \cup {BaseArgv}
    /\ InitLocals

SpecStats == InitStats /\ [][Next]_vars

(***************************************************************************)
(* Properties.  rx and tx describe what the handler that ran last did:     *)
(* rx.pe is the tracked endpoint it found, endpoint the source of the      *)
(* datagram it received, tx the sendto call it made (NoTx: none).          *)
(* The tracked endpoint is Unknown when its address is zero, Learned       *)
(* otherwise: this is how main() tells the two apart.                      *)
(***************************************************************************)
LoopEntered == pc \in {"top", "listen", "send"} \/ (pc = "exit" /\ rx.sock # "none")

\* the handler that ran last received a datagram of at least one byte
ListenDatagram == rx.sock = "listen" /\ rx.ret > 0
SendDatagram == rx.sock = "send" /\ rx.ret > 0

SameEndpoint(a, b) == a.sin_addr = b.sin_addr /\ a.sin_port = b.sin_port

C3_LastSenderAnyLength ==
    (s.lstrict = 0 /\ rx.sock = "listen" /\ rx.ret >= 0)
        => SameEndpoint(previous_endpoint, endpoint)

\* C3 amended: with listen-strict off, once the listen socket received a
\* datagram of at least one byte, the learned endpoint is the source of the
\* most recent such datagram; a datagram of no bytes leaves it as it was.
C3_LastSenderWithData ==
    /\ (s.lstrict = 0 /\ LoopEntered /\ hist.last_data # NoPeer)
          => previous_endpoint = hist.last_data
    /\ (s.lstrict = 0 /\ rx.sock = "listen" /\ rx.ret = 0)
          => previous_endpoint = rx.pe

\* C3 case: the endpoint was learned from one client, and an empty datagram of
\* another source arrived after it
C3_Witness ==
    /\ s.lstrict = 0 /\ rx.sock = "listen" /\ rx.ret = 0
    /\ hist.last_data # NoPeer
    /\ ~SameEndpoint(endpoint, previous_endpoint)

\* listen-strict is on and no expected sender was configured
StrictNoSender == s.lstrict = 1 /\ s.lsaddr = NULL /\ s.lsport = 0

\* an expected sender was configured: address and port
SenderConfigured == s.lsaddr # NULL /\ s.lsport # 0

\* C4: with listen-strict on and no expected sender, from the first accepted
\* listen datagram on the learned endpoint is the source of that datagram, and
\* a listen datagram of any other source is not forwarded.
C4_FirstSenderKept ==
    (StrictNoSender /\ hist.first_accepted # NoPeer)
        => /\ previous_endpoint = hist.first_accepted
           /\ (ListenDatagram /\ ~SameEndpoint(endpoint, hist.first_accepted))
                 => tx = NoTx

\* C5: with an expected sender configured, on entry to the loop, before any
\* datagram, the learned endpoint is exactly the configured address and port,
\* and listen-strict is on.
C5_PreseededExactly ==
    (pc = "top" /\ rx.sock = "none" /\ SenderConfigured)
        => /\ s.lstrict = 1
           /\ previous_endpoint.sin_addr = inet_addr(s.lsaddr)
           /\ ntohs(previous_endpoint.sin_port) = s.lsport

\* the expected sender as a socket address, the port taken as the 16 bits
\* that reach the wire
ExpectedSender == SockAddr(inet_addr(s.lsaddr), htons(s.lsport))

\* C6: with an expected sender configured and startup passed, the tracked
\* endpoint is that sender in every loop state, and a listen datagram of any
\* other source is not forwarded.
C6_OnlyExpectedSender ==
    (LoopEntered /\ SenderConfigured)
        => /\ previous_endpoint = ExpectedSender
           /\ (ListenDatagram /\ ~SameEndpoint(endpoint, ExpectedSender))
                 => tx = NoTx

\* C7: every sendto of the listen handler is addressed to the connect endpoint,
\* which is the one derived from the settings before the loop and the same in
\* every loop state; every sendto of the send handler is addressed to the
\* tracked endpoint as it stands at that moment.
C7_ForwardDestinations ==
    LoopEntered =>
        /\ caddr = SockAddr(inet_addr(s.caddr), htons(s.cport))
        /\ (tx.sock = "send" => tx.dest = caddr)
        /\ (tx.sock = "listen" => tx.dest = rx.pe /\ tx.dest = previous_endpoint)

\* C7 case: a reply sent back to a learned client that is not the connect
\* endpoint, after a datagram was forwarded to the connect endpoint
C7_Witness ==
    /\ tx.sock = "listen" /\ tx.dest = PeerAddr(<<AddrB, 5>>)
    /\ tx.dest # caddr
    /\ st.count_connect_packet_send > 0

\* C8: in both directions the bytes handed to sendto are exactly the bytes of
\* the datagram that was received: the same length, the same bytes in order.
C8_PayloadUnchanged ==
    tx.sock # "none"
        => /\ rx.sock = (IF tx.sock = "send" THEN "listen" ELSE "send")
           /\ Len(tx.data) = rx.ret
           /\ tx.data = rx.payload

\* C8 case: a reply forwarded from a buffer that held another datagram before
C8_Witness ==
    /\ tx.sock = "listen" /\ tx.data = Falling(MaxLen)
    /\ st.count_connect_byte_send > 0
    /\ Len(network_buffer) > Len(tx.data)

\* neither strict option is on
NonStrict == s.lstrict = 0 /\ s.cstrict = 0

\* every datagram counted on the listen socket was sent on in full (the
\* statistics are off, so the counters are never reset)
ForwardedInFull ==
    /\ s.stats = 0
    /\ st.count_connect_packet_send = st.count_listen_packet_receive
    /\ st.count_connect_byte_send = st.count_listen_byte_receive

\* C9: non-strict, no I/O error: a datagram with payload P of client C is
\* handed to sendto for the connect endpoint with payload P; a reply R that
\* then arrives from the connect endpoint is handed to sendto for C's address
\* and port with payload R.  C is the source of the most recent listen
\* datagram that carried data.
C9_RoundTrip ==
    /\ (NonStrict /\ ListenDatagram /\ tx.ret # -1)
          => (tx.sock = "send" /\ tx.dest = caddr /\ tx.data = rx.payload)
    /\ (NonStrict /\ SendDatagram /\ SameEndpoint(endpoint, caddr)
          /\ hist.last_data # NoPeer /\ ForwardedInFull /\ tx.ret # -1)
          => (tx.sock = "listen" /\ tx.dest = hist.last_data
              /\ tx.data = rx.payload)

\* the error codes a call can fail with, and one to either side
ErrnoCodes == -1 .. MAX_ERRNO

\* the codes that are ignorable with ignore-errors on (1) and off (0)
IgnorableCodes(eignore) ==
    IF eignore = 1
    THEN {EINTR, EAGAIN, EHOSTUNREACH, ENETDOWN, ENETUNREACH, ENOBUFS, EPIPE,
          EADDRNOTAVAIL}
    ELSE {EINTR}

\* C10: an error code is ignorable exactly when it is EINTR, or the
\* ignore-errors option is on and the code is one of EAGAIN, EHOSTUNREACH,
\* ENETDOWN, ENETUNREACH, ENOBUFS, EPIPE, EADDRNOTAVAIL; every other code is
\* fatal.  The ignore set is the same in every loop state, so the classifier,
\* which reads nothing else, is tried on every code where the loop is entered.
C10_IgnorableCodes ==
    LoopEntered =>
        /\ errno_ignore = IgnorableCodes(s.eignore)
        /\ (pc = "top" /\ rx.sock = "none")
              => \A e \in ErrnoCodes :
                    ERRNO_IGNORE_CHECK(errno_ignore, e)
                        <=> e \in IgnorableCodes(s.eignore)

\* C10 case: with ignore-errors off, recvfrom failed with EINTR and the loop
\* went on, while sendto failing with EHOSTUNREACH ended it before
C10_Witness ==
    /\ s.eignore = 0 /\ pc = "send"
    /\ rx.sock = "listen" /\ rx.ret = -1 /\ rx.errno = EINTR

(***************************************************************************)
(* Errors and rejections.  hist.st0 is the statistics as the step that ran *)
(* last found them.                                                        *)
(***************************************************************************)
\* the send counters of the socket a handler forwards on, interval and total
SendCounters(stt, sock) ==
    IF sock = "send"
    THEN << stt.count_connect_packet_send, stt.count_connect_byte_send,
            stt.count_connect_packet_send_total, stt.count_connect_byte_send_total >>
    ELSE << stt.count_listen_packet_send, stt.count_listen_byte_send,
            stt.count_listen_packet_send_total, stt.count_listen_byte_send_total >>

AllSendCounters(stt) == << SendCounters(stt, "send"), SendCounters(stt, "listen") >>

\* the handler that ran last called sendto and the call failed
SendFailed == tx.sock # "none" /\ tx.ret = -1

\* the handler that ran last called recvfrom and the call failed
RecvFailed == rx.sock \in {"listen", "send"} /\ rx.ret = -1

\* the process is in the loop, past the handler that ran last
LoopGoesOn == pc \in {"top", "send"} /\ exit_status = -1

\* exit(EXIT_FAILURE) was called: a non-zero status, and no step follows
FatalExit == pc = "exit" /\ exit_status = EXIT_FAILURE /\ exit_status # 0

\* C11: with ignore-errors on, a forward send (either direction) that fails
\* with EHOSTUNREACH or any other ignorable error does not end the process,
\* the loop goes on, and the packet and byte send counters are as the handler
\* found them.
C11_IgnoredSendFailure ==
    (s.eignore = 1 /\ SendFailed /\ tx.errno \in IgnorableCodes(1))
        => /\ LoopGoesOn
           /\ AllSendCounters(st) = AllSendCounters(hist.st0)

\* C11 case: ignore-errors on, no strict mode, two datagrams counted on the
\* listen socket, the forward of the first failed and the second is sent on
C11_Witness ==
    /\ s.eignore = 1 /\ s.lstrict = 0 /\ s.stats = 0
    /\ st.count_listen_packet_receive = 2
    /\ st.count_connect_packet_send = 1
    /\ tx.sock = "send" /\ tx.ret > 0

\* C12: with stop-errors in effect, a forward send that fails with
\* EHOSTUNREACH or any error other than EINTR ends the process at once with a
\* failure status; no step follows, and the send counters are as the handler
\* found them.
C12_StopOnSendFailure ==
    (s.eignore = 0 /\ SendFailed /\ tx.errno # EINTR)
        => /\ FatalExit
           /\ ~ENABLED Next
           /\ AllSendCounters(st) = AllSendCounters(hist.st0)

\* C12 case: stop-errors, the forward to the connect endpoint failed with
\* EHOSTUNREACH
C12_Witness ==
    /\ s.eignore = 0 /\ tx.sock = "send"
    /\ tx.ret = -1 /\ tx.errno = EHOSTUNREACH
    /\ pc = "exit"

\* C13: a recvfrom failure with an error outside the ignore set ends the
\* process with a failure status; with an error in the ignore set no counter
\* changes, the tracked endpoint stays, sendto is not called and the loop goes
\* on, to the send socket when the failure was on the listen socket.
C13_ReceiveFailure ==
    RecvFailed =>
        IF rx.errno \in IgnorableCodes(s.eignore)
        THEN /\ LoopGoesOn
             /\ (rx.sock = "send" => pc = "top")
             /\ st = hist.st0
             /\ previous_endpoint = rx.pe
             /\ tx = NoTx
        ELSE FatalExit /\ ~ENABLED Next

\* C13 case: recvfrom on the listen socket failed with an ignored error while
\* the send socket is readable in the same iteration
C13_Witness ==
    /\ rx.sock = "listen" /\ rx.ret = -1 /\ rx.errno = EHOSTUNREACH
    /\ pc = "send" /\ ufds[2]

\* the acceptance policy turns away the datagram the handler received
ListenRejected ==
    /\ ListenDatagram
    /\ s.lstrict = 1 /\ rx.pe.sin_addr # 0 /\ ~SameEndpoint(rx.pe, endpoint)

SendRejected ==
    /\ SendDatagram
    /\ (rx.pe.sin_addr = 0 \/ (s.cstrict = 1 /\ ~SameEndpoint(endpoint, caddr)))

\* C14: a datagram the acceptance policy rejects, on either socket, does not
\* end the process, is not forwarded, changes no send counter and leaves the
\* tracked endpoint as it was.
C14_RejectionHarmless ==
    (ListenRejected \/ SendRejected)
        => /\ LoopGoesOn
           /\ tx = NoTx
           /\ AllSendCounters(st) = AllSendCounters(hist.st0)
           /\ previous_endpoint = rx.pe

\* C14 case: a datagram on the send socket while no endpoint is learned
C14_Witness ==
    /\ SendDatagram /\ rx.pe.sin_addr = 0
    /\ tx = NoTx /\ pc = "top"

(***************************************************************************)
(* Statistics.  hist.emitted tells whether the iteration that began last   *)
(* displayed the statistics; rx.sock = "poll" holds from the top of an     *)
(* iteration until a handler receives.                                     *)
(***************************************************************************)
IntervalCounters(stt) ==
    << stt.count_listen_packet_receive, stt.count_listen_byte_receive,
       stt.count_listen_packet_send, stt.count_listen_byte_send,
       stt.count_connect_packet_receive, stt.count_connect_byte_receive,
       stt.count_connect_packet_send, stt.count_connect_byte_send >>

CumulativeCounters(stt) ==
    << stt.count_listen_packet_receive_total, stt.count_listen_byte_receive_total,
       stt.count_listen_packet_send_total, stt.count_listen_byte_send_total,
       stt.count_connect_packet_receive_total, stt.count_connect_byte_receive_total,
       stt.count_connect_packet_send_total, stt.count_connect_byte_send_total >>

\* the statistics were displayed and no handler has received since
JustEmitted == hist.emitted /\ rx.sock = "poll"

\* C15: right after each statistics emission all eight interval counters are
\* zero.
C15_IntervalCountersReset ==
    JustEmitted => \A i \in 1..8 : IntervalCounters(st)[i] = 0

\* C15 case: an emission that found traffic counted in both directions
C15_Witness ==
    /\ JustEmitted
    /\ hist.st0.count_listen_byte_receive > 0
    /\ hist.st0.count_connect_packet_receive > 0

\* C16: no step makes any of the eight cumulative counters smaller than the
\* step found it.
C16_CumulativeMonotone ==
    \A i \in 1..8 : CumulativeCounters(st)[i] >= CumulativeCounters(hist.st0)[i]

\* C16 case: an emission that raised a cumulative counter
C16_Witness ==
    /\ JustEmitted
    /\ st.count_connect_byte_send_total > hist.st0.count_connect_byte_send_total

\* C17: in one iteration recvfrom is called at most once on the listen socket
\* and at most once on the send socket; a socket poll reported readable has
\* had its one call when its block is passed, so that when both are readable
\* both are served in that iteration.
C17_OnePerSocketPerIteration ==
    LoopEntered =>
        /\ hist.rcv[1] <= 1 /\ hist.rcv[2] <= 1
        /\ (pc \in {"send", "top"} /\ ufds[1]) => hist.rcv[1] = 1
        /\ (pc = "top" /\ ufds[2]) => hist.rcv[2] = 1
        /\ (pc = "listen") => hist.rcv = <<0, 0>>

\* C17 case: both sockets were readable and a datagram of each was received
\* and forwarded in the same iteration
C17_Witness ==
    /\ pc = "top" /\ ufds = <<TRUE, TRUE>> /\ hist.rcv = <<1, 1>>
    /\ s.stats = 0
    /\ st.count_connect_packet_send = 1
    /\ st.count_listen_packet_send = 1
    /\ hist.events = 2

\* C18: the loop has no way out but exit(): while the process is in the loop a
\* step is always possible, every exit carries EXIT_FAILURE, and status 0 is
\* never reached.
C18_OnlyFatalExits ==
    /\ exit_status # 0
    /\ (pc = "exit") <=> (exit_status = EXIT_FAILURE)
    /\ (pc # "exit") <=> (exit_status = -1)
    /\ (pc \in {"top", "listen", "send"}) => ENABLED Next

\* C18 case: the loop was left because poll failed with an error other than
\* EINTR
C18_Witness ==
    /\ pc = "exit" /\ rx.sock = "poll" /\ rx.ret = -1 /\ rx.errno = EAGAIN
    /\ exit_status = EXIT_FAILURE

\* the settings miss a required option or hold half an expected sender
SettingsIncomplete ==
    \/ s.lport = 0
    \/ s.cport = 0
    \/ (s.caddr = NULL /\ s.chost = NULL)
    \/ (s.lsaddr # NULL /\ s.lsport = 0)
    \/ (s.lsaddr = NULL /\ s.lsport # 0)

\* socket_setup was called for a socket
SocketSetupCalled == lsock # NoSocket \/ ssock # NoSocket

\* C19: socket_setup is called and the loop is entered only with a listen
\* port, a connect port, a connect address or host, and an expected sender
\* given in full or not at all; settings that fail one of these end the
\* process with a failure status with no socket created.
C19_StartupValidation ==
    /\ (SocketSetupCalled \/ LoopEntered) => ~SettingsIncomplete
    /\ (pc \notin {"getopt", "check"} /\ SettingsIncomplete)
          => (FatalExit /\ ~SocketSetupCalled /\ ~LoopEntered)

\* C19 case: an expected-sender address without a port
C19_Witness ==
    /\ pc = "exit" /\ exit_status = EXIT_FAILURE
    /\ s.lport # 0 /\ s.cport # 0 /\ s.caddr # NULL
    /\ s.lsaddr # NULL /\ s.lsport = 0
    /\ ~SocketSetupCalled

\* the listen handler accepted the datagram it received: it called sendto
ListenAccepted == ListenDatagram /\ tx.sock = "send"

AfterLoopTop == rx.sock = "poll" /\ (pc \in {"listen", "exit"} \/ rx.ret <= 0)

\* C21: when poll fails with EINTR the loop starts its next iteration and
\* nothing is received; when it fails with any other error the process exits
\* with a failure status, whatever eignore is and although the code may be in
\* the ignore set.
C21_PollFailure ==
    (rx.sock = "poll" /\ rx.ret = -1) =>
        IF rx.errno = EINTR
        THEN /\ pc = "top" /\ exit_status = -1
             /\ hist.rcv = <<0, 0>> /\ ufds = <<FALSE, FALSE>>
             /\ tx = NoTx
        ELSE FatalExit /\ ~ENABLED Next

\* C21 case: ignore-errors on, poll failed with EAGAIN, a code of the ignore
\* set, and the process exited
C21_Witness ==
    /\ s.eignore = 1 /\ ERRNO_IGNORE_CHECK(errno_ignore, EAGAIN)
    /\ rx.sock = "poll" /\ rx.ret = -1 /\ rx.errno = EAGAIN
    /\ pc = "exit"

\* C22: an iteration in which poll times out calls neither recvfrom nor
\* sendto and leaves the tracked endpoint as it was; the counters are as they
\* were unless the statistics check displayed them, which moves the interval
\* counters into the cumulative ones and changes nothing else.
C22_TimeoutIteration ==
    (rx.sock = "poll" /\ rx.ret = 0) =>
        /\ pc = "top" /\ exit_status = -1
        /\ hist.rcv = <<0, 0>> /\ ufds = <<FALSE, FALSE>>
        /\ tx = NoTx
        /\ previous_endpoint = rx.pe
        /\ IF hist.emitted
           THEN /\ \A i \in 1..8 :
                     /\ IntervalCounters(st)[i] = 0
                     /\ CumulativeCounters(st)[i]
                          = CumulativeCounters(hist.st0)[i] + IntervalCounters(hist.st0)[i]
                /\ st.time_display_first = hist.st0.time_display_first
           ELSE st = hist.st0

\* C22 case: a timeout iteration whose statistics check displayed counters
\* that were not zero
C22_Witness ==
    /\ rx.sock = "poll" /\ rx.ret = 0 /\ hist.emitted
    /\ hist.st0.count_listen_packet_receive > 0
    /\ previous_endpoint.sin_addr # 0

(***************************************************************************)
(* Counting.                                                               *)
(***************************************************************************)
\* the receive counters of a socket, interval and total
ReceiveCounters(stt, sock) ==
    IF sock = "listen"
    THEN << stt.count_listen_packet_receive, stt.count_listen_byte_receive,
            stt.count_listen_packet_receive_total, stt.count_listen_byte_receive_total >>
    ELSE << stt.count_connect_packet_receive, stt.count_connect_byte_receive,
            stt.count_connect_packet_receive_total, stt.count_connect_byte_receive_total >>

\* the other socket
Opposite(sock) == IF sock = "listen" THEN "send" ELSE "listen"

\* a handler ran last and hist.st0 is the statistics it found
AfterHandler ==
    \/ (rx.sock = "listen" /\ pc # "top")
    \/ rx.sock = "send"

\* C23: a recvfrom that returns zero or fewer bytes, on either socket, is no
\* data: sendto is not called, no counter changes, and the tracked endpoint is
\* not set from the source.
C23_NoDataOnZero ==
    (rx.sock \in {"listen", "send"} /\ rx.ret <= 0)
        => /\ tx = NoTx
           /\ st = hist.st0
           /\ previous_endpoint = rx.pe

\* C23 case: an empty datagram on the send socket from the connect endpoint
\* while an endpoint is learned
C23_Witness ==
    /\ rx.sock = "send" /\ rx.ret = 0
    /\ rx.pe.sin_addr # 0 /\ SameEndpoint(endpoint, caddr)
    /\ pc = "top"

\* C24: a datagram of at least one byte adds 1 packet and its length in bytes
\* to the interval receive counters of its socket, accepted or not; the
\* interval send counters of the other socket grow by 1 packet and the bytes
\* sendto reported exactly when sendto was called and returned without
\* error; no other counter changes.
C24_Counting ==
    (AfterHandler /\ rx.ret > 0) =>
        LET sent == tx.sock # "none" /\ tx.ret # -1
            recv0 == ReceiveCounters(hist.st0, rx.sock)
            send0 == SendCounters(hist.st0, Opposite(rx.sock))
        IN  /\ ReceiveCounters(st, rx.sock)
                 = << recv0[1] + 1, recv0[2] + rx.ret, recv0[3], recv0[4] >>
            /\ SendCounters(st, Opposite(rx.sock))
                 = IF sent
                   THEN << send0[1] + 1, send0[2] + tx.ret, send0[3], send0[4] >>
                   ELSE send0
            /\ ReceiveCounters(st, Opposite(rx.sock))
                 = ReceiveCounters(hist.st0, Opposite(rx.sock))
            /\ SendCounters(st, rx.sock) = SendCounters(hist.st0, rx.sock)

\* C24 case: a listen datagram that strict mode rejected and that was counted
\* as received
C24_Witness ==
    /\ ListenRejected /\ pc = "send"
    /\ st.count_listen_packet_receive = hist.st0.count_listen_packet_receive + 1
    /\ st.count_listen_packet_receive = 2

(***************************************************************************)
(* Partial sends.                                                          *)
(***************************************************************************)
\* debug_level as main() initialises it, without -v or -d
DefaultDebugLevel == DEBUG_LEVEL_ERROR

\* the last handler forwarded its datagram and sendto took fewer bytes than
\* were received
PartialSend ==
    /\ AfterHandler
    /\ tx.sock = Opposite(rx.sock)
    /\ tx.ret >= 0 /\ tx.ret < rx.ret

\* a partial send is survived and sendto ran once: one packet counted with
\* the bytes sendto reported, the buffer still holding the whole datagram
PartialSendLogOnly ==
    /\ pc # "exit"
    /\ SendCounters(st, tx.sock)[1] = SendCounters(hist.st0, tx.sock)[1] + 1
    /\ SendCounters(st, tx.sock)[2] = SendCounters(hist.st0, tx.sock)[2] + tx.ret
    /\ SubSeq(network_buffer, 1, rx.ret) = rx.payload

\* C25 as stated: in every configuration a partial send is reported at a
\* level the default debug_level prints, the process goes on and nothing is
\* sent again.
C25_PartialSendAlwaysVisible ==
    PartialSend => /\ Printed(DefaultDebugLevel, tx.lvl)
                   /\ PartialSendLogOnly

\* C25 amended: a partial send is reported at error level with --stop-errors
\* and at debug level with --ignore-errors (the default); either way the
\* process goes on and nothing is sent again.
C25_PartialSendLevel ==
    PartialSend => /\ tx.lvl = (IF s.eignore = 1 THEN DEBUG_LEVEL_DEBUG
                                                 ELSE DEBUG_LEVEL_ERROR)
                   /\ (Printed(DefaultDebugLevel, tx.lvl) <=> s.eignore = 0)
                   /\ PartialSendLogOnly

\* C25 case: with --stop-errors one byte of a two-byte listen datagram is sent
\* and the loop goes on
C25_Witness ==
    /\ PartialSend /\ s.eignore = 0
    /\ rx.sock = "listen" /\ rx.ret = 2 /\ tx.ret = 1
    /\ tx.lvl = DEBUG_LEVEL_ERROR
    /\ pc = "send"

(***************************************************************************)
(* The statistics check.                                                   *)
(***************************************************************************)
\* the top of the loop has just run and it called stats_display: the time of
\* the last display is not the one the iteration found
DisplayedNow == AfterLoopTop /\ st.time_display_last # hist.st0.time_display_last

\* C26: the top of every iteration, also of one that poll ends with a timeout
\* or EINTR, displays the statistics exactly when --stats is on and more than
\* 60 seconds have passed since the last display, and records the time; the
\* handlers never display.  Without --stats nothing is ever displayed, and a
\* display is more than 60 seconds after the one before.
C26_StatsCheck ==
    /\ AfterLoopTop =>
          /\ DisplayedNow <=> (s.stats # 0
                               /\ now - hist.st0.time_display_last > STATS_DELAY_SECONDS)
          /\ DisplayedNow => /\ st.time_display_last = now
                             /\ st.time_display_last - hist.st0.time_display_last
                                    > STATS_DELAY_SECONDS
          /\ ~DisplayedNow => st = hist.st0
    /\ AfterHandler => st.time_display_last = hist.st0.time_display_last
    /\ s.stats = 0 => /\ st.time_display_last = 0
                      /\ \A i \in 1..8 : CumulativeCounters(st)[i] = 0

\* C26 case: a second display, in an iteration that poll ends with EINTR
C26_Witness ==
    /\ DisplayedNow
    /\ hist.st0.time_display_last > 0
    /\ rx.ret = -1 /\ rx.errno = EINTR /\ pc = "top"

\* C27: a display adds each of the eight interval counters, as the display
\* found it, to its own cumulative counter, once.
C27_RollIntoCumulative ==
    DisplayedNow =>
        \A i \in 1..8 :
            CumulativeCounters(st)[i]
                = CumulativeCounters(hist.st0)[i] + IntervalCounters(hist.st0)[i]

\* C27 case: a display that found a listen datagram of two bytes received and
\* one packet sent on to the connect endpoint
C27_Witness ==
    /\ DisplayedNow
    /\ hist.st0.count_listen_byte_receive = 2
    /\ hist.st0.count_connect_packet_send = 1
    /\ st.count_listen_byte_receive_total = 2
    /\ st.count_connect_packet_send_total = 1

(***************************************************************************)
(* Socket setup.                                                           *)
(***************************************************************************)
\* the system calls among the steps socket_setup completed
SystemCalls(done) ==
    LET IsCall(step) == step # "inet_addr"
    IN  SelectSeq(done, IsCall)

\* the system calls of a socket_setup that returns, in order
ExpectedCalls(xif) ==
    <<"socket">>
    \o (IF xif # NULL THEN <<"setsockopt_if">> ELSE <<>>)
    \o <<"setsockopt_reuse", "fcntl", "bind", "getsockname">>

\* socket_setup returned this socket after all of its calls succeeded
FullySetUp(sock, xif) ==
    /\ sock.ok /\ sock.failed = "none"
    /\ SystemCalls(sock.done) = ExpectedCalls(xif)

\* socket_setup was called for this socket and a step of it failed
SetupFailed(sock) == sock # NoSocket /\ sock.failed # "none"

\* C28: socket_setup returns a socket only after socket, the interface
\* setsockopt when an interface is given, the SO_REUSEADDR setsockopt, fcntl,
\* bind and getsockname succeeded in that order; a step that fails ends the
\* process with a failure status, no later step runs and the loop is never
\* entered with that socket.
C28_SocketSetup ==
    /\ LoopEntered => FullySetUp(lsock, s.lif) /\ FullySetUp(ssock, s.sif)
    /\ lsock.ok => FullySetUp(lsock, s.lif)
    /\ ssock.ok => FullySetUp(ssock, s.sif)
    /\ (SetupFailed(lsock) \/ SetupFailed(ssock))
          => /\ FatalExit /\ ~LoopEntered
             /\ ~lsock.ok \/ ~ssock.ok
    /\ SetupFailed(lsock) => /\ ssock = NoSocket
                             /\ lsock.failed \notin
                                  {lsock.done[i] : i \in 1..Len(lsock.done)}
    /\ \A i \in 1..Len(lsock.done) :
          lsock.done[i] = SetupOrder(s.laddr, s.lif)[i]
    /\ \A i \in 1..Len(ssock.done) :
          ssock.done[i] = SetupOrder(s.saddr, s.sif)[i]

\* C28 case: the send socket has an address, a port and an interface, its
\* bind fails after the earlier calls succeeded, and the process has exited
\* with the listen socket set up
C28_Witness ==
    /\ FullySetUp(lsock, s.lif)
    /\ s.sif # NULL
    /\ ssock.failed = "bind"
    /\ SystemCalls(ssock.done) = <<"socket", "setsockopt_if", "setsockopt_reuse", "fcntl">>
    /\ pc = "exit" /\ exit_status = EXIT_FAILURE

(***************************************************************************)
(* The shared buffer.                                                      *)
(***************************************************************************)
\* C29: when sendto is called the buffer holds the datagram the same handler
\* received, whole, and that is what sendto is given; no recvfrom comes
\* between the two.  With both sockets readable the listen handler has called
\* sendto before recvfrom is called on the send socket.
C29_BufferNotOverwritten ==
    /\ tx.sock # "none" =>
          /\ tx.sock = Opposite(rx.sock)
          /\ Len(tx.data) = rx.ret
          /\ \A i \in 1..rx.ret : /\ network_buffer[i] = rx.payload[i]
                                  /\ tx.data[i] = network_buffer[i]
    /\ (pc = "send" /\ rx.sock = "listen") => hist.rcv = <<1, 0>>
    /\ (rx.sock = "send" /\ ufds[1]) => hist.rcv = <<1, 1>>

\* C29 case: both sockets readable in one iteration; the listen datagram was
\* forwarded in full, then the send socket's datagram, with another payload,
\* was received into the buffer and forwarded
C29_Witness ==
    /\ ufds = <<TRUE, TRUE>> /\ hist.rcv = <<1, 1>>
    /\ st.count_connect_packet_send = 1
    /\ st.count_connect_byte_send = MaxLen
    /\ hist.last_data # NoPeer
    /\ rx.sock = "send" /\ tx.sock = "listen"
    /\ rx.payload = Falling(MaxLen) /\ tx.data = Falling(MaxLen)
    /\ tx.ret = MaxLen

(***************************************************************************)
(* The endpoint tracker never forgets.                                     *)
(***************************************************************************)
\* the endpoint is known, as both handlers test it
Learned(pe) == pe.sin_addr # 0

\* C30: an endpoint that was known when a step began is known when it ends:
\* no datagram, strict mode or not, takes the tracker back to unknown.
C30_LearnedStaysLearned ==
    (LoopEntered /\ Learned(rx.pe)) => Learned(previous_endpoint)

(***************************************************************************)
(* --ignore-errors and --stop-errors.                                      *)
(***************************************************************************)
\* the error options given on the command line
ErrorOptionsGiven == {argv.errs[i] : i \in 1..Len(argv.errs)}

\* C31: eignore is 1 when neither option is given, and the loop is never
\* entered after a command line that gave both --ignore-errors and
\* --stop-errors.
C31_ErrorOptionsExclusive ==
    LoopEntered => /\ (ErrorOptionsGiven = {} => s.eignore = 1)
                   /\ ErrorOptionsGiven # {"r", "s"}

(***************************************************************************)
(* The send socket and the tracked endpoint.                               *)
(***************************************************************************)
\* C32: the handler of the send socket leaves the tracked endpoint as it
\* found it, whether it forwarded the datagram, rejected it, got no data or
\* failed.
C32_SendSideKeepsEndpoint ==
    rx.sock = "send" => SameEndpoint(previous_endpoint, rx.pe)

\* C32 case: a datagram from a third party forwarded to the learned endpoint
C32_Witness ==
    /\ SendDatagram
    /\ ~SameEndpoint(endpoint, rx.pe) /\ ~SameEndpoint(endpoint, caddr)
    /\ rx.pe.sin_addr # 0
    /\ tx.sock = "listen" /\ SameEndpoint(tx.dest, previous_endpoint)
    /\ pc = "top"

(***************************************************************************)
(* Listen before send within one iteration.                                *)
(***************************************************************************)
\* the listen handler of this iteration accepted a datagram while no endpoint
\* was known, and the send handler is about to run
LearnedThisIteration ==
    /\ pc = "send" /\ ListenAccepted
    /\ rx.pe.sin_addr = 0

\* the send handler step receives a datagram of at least one byte that
\* connect-strict lets through
SendStepReceives ==
    /\ rx'.sock = "send" /\ rx'.ret > 0
    /\ (s.cstrict = 0 \/ SameEndpoint(endpoint', caddr))

\* C33: when the listen handler of an iteration has accepted a datagram with
\* no endpoint known before, the send handler of the same iteration forwards
\* its datagram (connect-strict permitting) to the source of that listen
\* datagram.
C33_ListenBeforeSend ==
    [][ (LearnedThisIteration /\ SendStepReceives)
            => (tx'.sock = "listen" /\ SameEndpoint(tx'.dest, endpoint)) ]_vars

(***************************************************************************)
(* Learning comes before forwarding.                                       *)
(***************************************************************************)
\* the listen handler accepted a datagram and its sendto failed with an error
\* the process survives
ListenForwardFailed ==
    /\ ListenAccepted
    /\ tx.ret = -1 /\ ERRNO_IGNORE_CHECK(errno_ignore, tx.errno)

\* C34: an accepted listen datagram whose forward fails with an ignorable
\* error has still set the tracked endpoint, exactly as a forward that
\* succeeds would, and the loop goes on; whatever the send handler forwards
\* afterwards goes to the tracked endpoint.
C34_LearnedBeforeForward ==
    /\ ListenForwardFailed =>
          /\ previous_endpoint
                = (IF rx.pe.sin_addr = 0 \/ s.lstrict = 0
                   THEN SockAddr(endpoint.sin_addr, endpoint.sin_port)
                   ELSE rx.pe)
          /\ LoopGoesOn
    /\ (rx.sock = "send" /\ tx.sock = "listen")
          => SameEndpoint(tx.dest, previous_endpoint)

\* C34 case: nothing was ever sent to the connect endpoint, and a datagram
\* from the send socket is forwarded to the source of the listen datagram
\* whose forward failed
C34_Witness ==
    /\ s.lsaddr = NULL
    /\ \A i \in 1..4 : SendCounters(st, "send")[i] = 0
    /\ hist.first_accepted # NoPeer
    /\ rx.sock = "send" /\ tx.sock = "listen" /\ tx.ret > 0
    /\ SameEndpoint(tx.dest, hist.first_accepted)

(***************************************************************************)
(* Counter relations.                                                      *)
(***************************************************************************)
\* C35: each send counter is at most the receive counter of the other side,
\* packets and bytes, interval and cumulative (sendto returns at most the
\* number of bytes it was given).
C35_SendAtMostReceived ==
    \A i \in 1..4 :
        /\ SendCounters(st, "send")[i] <= ReceiveCounters(st, "listen")[i]
        /\ SendCounters(st, "listen")[i] <= ReceiveCounters(st, "send")[i]

\* C35 case: after a display, a cumulative byte counter of a partial send
\* below the bytes received, and an interval packet counter equal to the
\* packets received on the other side
C35_Witness ==
    /\ st.count_listen_packet_receive_total = 1
    /\ st.count_connect_packet_send_total = 1
    /\ st.count_connect_byte_send_total < st.count_listen_byte_receive_total
    /\ st.count_connect_packet_receive = 1
    /\ st.count_listen_packet_send = 1

\* C36: for each of the eight quantities the cumulative counter plus the
\* interval counter is the number of packets or bytes counted for it since
\* the loop started, whatever displays came in between.
C36_NothingLostOrDoubled ==
    \A i \in 1..8 :
        CumulativeCounters(st)[i] + IntervalCounters(st)[i] = hist.counted[i]

\* C36 case: traffic counted before a display and more after it
C36_Witness ==
    /\ st.count_listen_byte_receive_total > 0
    /\ st.count_connect_byte_send_total > 0
    /\ st.count_connect_byte_receive > 0
    /\ st.count_listen_byte_send > 0
    /\ hist.counted[2] = st.count_listen_byte_receive_total
    /\ hist.counted[4] = st.count_listen_byte_send

(***************************************************************************)
(* Ports.                                                                  *)
(***************************************************************************)
\* the port socket_setup asked bind for: the configured one, not 0
BindPortKept(sock, xport) ==
    (sock # NoSocket /\ xport # 0)
        => (sock.port # 0 /\ ntohs(sock.port) = xport)

\* C37: a configured port that is not 0 is the port used: bind is not asked
\* for port 0 on the listen or the send socket, and on entry to the loop the
\* connect endpoint and the pre-seeded endpoint carry the configured ports.
C37_ConfiguredPortsUsed ==
    /\ BindPortKept(lsock, s.lport)
    /\ BindPortKept(ssock, s.sport)
    /\ (pc = "top" /\ rx.sock = "none")
          => /\ s.cport # 0 => (caddr.sin_port # 0 /\ ntohs(caddr.sin_port) = s.cport)
             /\ s.lsport # 0 => (previous_endpoint.sin_port # 0
                                 /\ ntohs(previous_endpoint.sin_port) = s.lsport)

(***************************************************************************)
(* The first display.                                                      *)
(***************************************************************************)
\* the loop is about to run its first iteration
FirstIteration == pc = "top" /\ rx.sock = "none"

\* the step called stats_display
DisplayStep == st'.time_display_last # st.time_display_last

\* C38: with --stats, the first iteration displays the statistics, with the
\* time of the last display still 0, every counter 0 and nothing received
\* yet; a later display is more than 60 seconds after the one before, the
\* first one included.
C38_FirstDisplay ==
    [][ /\ (s.stats # 0 /\ FirstIteration)
            => /\ DisplayStep
               /\ st.time_display_last = 0
               /\ st'.time_display_last = now'
               /\ \A i \in 1..8 : /\ IntervalCounters(st)[i] = 0
                                  /\ CumulativeCounters(st')[i] = 0
                                  /\ hist.counted[i] = 0
               /\ hist.rcv = <<0, 0>> /\ hist.events = 0
        /\ (DisplayStep /\ ~FirstIteration)
            => /\ st.time_display_last >= st.time_display_first
               /\ now' - st.time_display_last > STATS_DELAY_SECONDS
      ]_vars

\* C38 case: the second display, 61 seconds after the one of the first
\* iteration, with traffic counted in between
C38_Witness ==
    /\ DisplayedNow
    /\ hist.st0.time_display_last = hist.st0.time_display_first
    /\ now - hist.st0.time_display_last = STATS_DELAY_SECONDS + 1
    /\ hist.st0.count_listen_packet_receive > 0

(***************************************************************************)
(* The two roll-up functions.                                              *)
(***************************************************************************)
\* C39: statistics_display of statistics.c and stats_display of
\* udp-redirect.c leave the same statistics structure: given the statistics
\* and the time of any state they agree on all eighteen fields, and where the
\* loop has just called stats_display its result is what statistics_display
\* gives for the same statistics and time; neither writes a timestamp.
C39_DisplayVariantsAgree ==
    /\ statistics_display(st, now) = stats_display(st, now)
    /\ statistics_display(st, now).time_display_last = st.time_display_last
    /\ statistics_display(st, now).time_display_first = st.time_display_first
    /\ DisplayedNow
          => st = [statistics_display(hist.st0, now) EXCEPT !.time_display_last = now]

\* C39 case: a display of counters that differ from each other, on both
\* sides, with totals that are not zero
C39_Witness ==
    /\ DisplayedNow
    /\ hist.st0.count_listen_packet_receive = 1
    /\ hist.st0.count_listen_byte_receive = 2
    /\ hist.st0.count_connect_byte_send = 1
    /\ st.count_connect_byte_send_total = 1
    /\ statistics_display(hist.st0, now).count_listen_byte_receive_total = 2

====
